---- MODULE Spec2Model ----
(***************************************************************************)
(* Geo-SInC notebooks: the kite quadtree workflow (EarthScope2024 3.1 and  *)
(* UNAVCO2021 3.2), the okapy forward-model notebook, and the GDAL and     *)
(* ARIA-tools notebook (EarthScope2024 0.4).                               *)
(*                                                                         *)
(* A notebook is a kernel namespace (the variables below) and cells that   *)
(* run to completion or stop at the first exception.  Arrays are sequences *)
(* of rows, row 1 being numpy row 0.  A float that may be NaN is a record  *)
(* [nan, v]; v is an integer count of a fixed unit (radians for the phase, *)
(* micrometres for a displacement in metres).                              *)
(***************************************************************************)
EXTENDS Integers, Sequences, FiniteSets, TLC

VARIABLES
    nb,              \* the notebook being run
    pc,              \* the last cell that was started
    err,             \* "" or the exception that stopped the last cell
    files,           \* the rasters on disk: ifg, cor, inc, azi, msk, gt
    use_water_mask,  \* parameter cell
    cor_thresh,      \* parameter cell, in hundredths
    ifg, cor, inc, azi, msk,   \* kernel arrays (<<>> until assigned)
    crop,            \* ymin, ymax, xmin, xmax as left by the load cell
    nrows,           \* losfile.RasterYSize as read by the load cell
    sc,              \* the kite scene (NoScene until created)
    open_ds,         \* the names of the kernel that hold an open GDAL dataset
    qt,              \* the leaves kite's quadtree gave, in kite's order
    reflat, reflon,  \* reference point cell
    xyll, losx, losy, losz, dataptid, xkm, ykm,   \* reformat cell
    okinv_data,      \* the array handed to np.savetxt
    okinv_file,      \* elazig_asc.okinv on disk
    fpc,             \* forward-model notebook: the last cell started
    ferr,            \* forward-model notebook: "" or the exception
    data,            \* forward-model notebook: the array np.loadtxt gave
    model_los_disps, \* forward-model notebook: what rect_shear_fault gave
    penalty,         \* forward-model notebook: total squared penalty
    zero_shift,      \* forward-model notebook: the mean residual
    apc,             \* ARIA notebook: the last cell started
    aerr,            \* ARIA notebook: "" or the exception
    Use_Staged_Data, \* ARIA notebook: the option of the setup cell
    aria_installed,  \* whether ARIAtools can be imported
    zip_file,        \* whether ariaTSsetup.zip is in the work directory
    products,        \* the products directory: "absent" or what filled it
    netrc, topoapi, password_config,   \* credential files: "absent" or
                     \* who wrote the content
    dl_log,          \* the download commands run so far, with their outcome
    gpc,             \* GDAL helpers: the last step of the helper called
    gerr,            \* GDAL helpers: "" or the exception raised
    raster,          \* GDAL helpers: size and band count of the input file
    args,            \* GDAL helpers: the arguments of the call
    out,             \* GDAL helpers: what gdal.Translate was asked and gave
    vsimem,          \* GDAL helpers: the /vsimem files that exist
    gds,             \* GDAL helpers: the open datasets, by local name
    panels           \* GDAL helpers: the titles plot_layer has set

loadVars == <<nb, pc, err, files, use_water_mask, cor_thresh,
              ifg, cor, inc, azi, msk, crop, nrows, sc, open_ds>>

okinvVars == <<qt, reflat, reflon, xyll, losx, losy, losz, dataptid, xkm, ykm,
               okinv_data, okinv_file>>

fwdVars == <<fpc, ferr, data, model_los_disps, penalty, zero_shift>>

ariaVars == <<apc, aerr, Use_Staged_Data, aria_installed, zip_file, products,
              netrc, topoapi, password_config, dl_log>>

gdalVars == <<gpc, gerr, raster, args, out, vsimem, gds, panels>>

vars == <<loadVars, okinvVars, fwdVars, ariaVars, gdalVars>>

----------------------------------------------------------------------------
(* Bounds of the model *)

\* side of the square raster on disk, in pixels
GridSide == 2
\* at most this many pixels of a scene are of low coherence or on water
\* (a pixel that is both counts twice)
MaxBad == 2

----------------------------------------------------------------------------
(* Floats and arrays *)

Num(x) == [nan |-> FALSE, v |-> x]
NaN == [nan |-> TRUE, v |-> 0]

\* the number of columns alone, where array.shape is meant
ColumnsOnly(g) == <<0, IF Len(g) = 0 THEN 0 ELSE Len(g[1])>>

\* array.shape of a 2-D array
Shape(g) == <<Len(g), IF Len(g) = 0 THEN 0 ELSE Len(g[1])>>

\* np.flip(a, 0): reverse the order of the rows
Flip0(g) == [i \in 1..Len(g) |-> g[Len(g) + 1 - i]]

\* a > t instead of a < t
GreaterThan(g, t) == [i \in 1..Len(g) |-> [j \in 1..Len(g[i]) |-> g[i][j] > t]]

\* a < t, elementwise, on an array of plain numbers
LessThan(g, t) == [i \in 1..Len(g) |-> [j \in 1..Len(g[i]) |-> g[i][j] < t]]

\* a[m] = np.nan for a boolean array m of the same shape
MaskWhere(g, m) ==
    [i \in 1..Len(g) |-> [j \in 1..Len(g[i]) |->
        IF m[i][j] THEN NaN ELSE g[i][j]]]

\* wavel/4/math.pi with wavel = 0.0555 m: micrometres per radian
MicronsPerRadian == 4417

\* a *= wavel/4/math.pi, elementwise; NaN stays NaN
ToMeters(g) ==
    [i \in 1..Len(g) |-> [j \in 1..Len(g[i]) |->
        IF g[i][j].nan THEN NaN ELSE Num(g[i][j].v * MicronsPerRadian)]]

\* np.radians: microradians per degree
MicroRadPerDeg == 17453

Radians(g) ==
    [i \in 1..Len(g) |-> [j \in 1..Len(g[i]) |-> g[i][j] * MicroRadPerDeg]]

\* a itself, where 90 - a is meant
Unchanged(g) == g

\* 90 - a and 90 + a, elementwise
NinetyMinus(g) == [i \in 1..Len(g) |-> [j \in 1..Len(g[i]) |-> 90 - g[i][j]]]
NinetyPlus(g) == [i \in 1..Len(g) |-> [j \in 1..Len(g[i]) |-> 90 + g[i][j]]]

\* Python's clamping of one slice bound on a sequence of length n
SliceBound(i, n) ==
    IF i < 0 THEN (IF i + n < 0 THEN 0 ELSE i + n)
    ELSE (IF i > n THEN n ELSE i)

\* s[start:stop]
PySlice(s, start, stop) ==
    LET a == SliceBound(start, Len(s))
        b == SliceBound(stop, Len(s))
    IN  IF a >= b THEN <<>> ELSE SubSeq(s, a + 1, b)

\* a[r0:r1, c0:c1]
Slice2(g, r0, r1, c0, c1) ==
    LET rows == PySlice(g, r0, r1)
    IN  [i \in 1..Len(rows) |-> PySlice(rows[i], c0, c1)]

----------------------------------------------------------------------------
(* The rasters on disk *)

Pixels(h, w) == (1..h) \X (1..w)

\* the unwrapped phase, band 2 of filt_topophase.unw.geo: every pixel holds
\* a different non-zero value, so a moved or rescaled pixel shows
IfgBand(h, w) == [i \in 1..h |-> [j \in 1..w |-> Num(10 * i + j)]]

\* band 2 of topophase.cor.geo, in hundredths: the pixels of low are at 0.20,
\* the others at 0.25
CorBand(h, w, low) ==
    [i \in 1..h |-> [j \in 1..w |-> IF <<i, j>> \in low THEN 20 ELSE 25]]

\* band 1 of water.msk: 0 on water, 1 on land
MskBand(h, w, water) ==
    [i \in 1..h |-> [j \in 1..w |-> IF <<i, j>> \in water THEN 0 ELSE 1]]

\* bands 1 and 2 of los.rdr.geo, in degrees
IncBand(h, w) == [i \in 1..h |-> [j \in 1..w |-> 30 + i]]
AziBand(h, w) == [i \in 1..h |-> [j \in 1..w |-> -(100 + j)]]

\* GetGeoTransform() of a north-up raster, in units of 0.001 degree:
\* (west edge, pixel width, 0, north edge, 0, -pixel height)
GeoTransform == [k \in 0..5 |->
    CASE k = 0 -> 38000 [] k = 1 -> 10 [] k = 3 -> 39000 [] k = 5 -> -10
      [] OTHER -> 0]

\* the coherence and water-mask rasters of one scene: of the shape of the
\* interferogram with a few bad pixels, or one of them of another shape
CorMskFiles ==
    LET few == { s \in SUBSET Pixels(GridSide, GridSide) : Cardinality(s) <= MaxBad }
        pairs == { lw \in few \X few : Cardinality(lw[1]) + Cardinality(lw[2]) <= MaxBad }
    IN  { <<CorBand(GridSide, GridSide, lw[1]), MskBand(GridSide, GridSide, lw[2])>> :
            lw \in pairs }
        \cup { <<CorBand(GridSide + 1, GridSide, {}), MskBand(GridSide, GridSide, {})>>,
               <<CorBand(GridSide, GridSide, {}), MskBand(GridSide, GridSide + 1, {})>> }

LosHeights == {GridSide, GridSide + 1}

Files ==
    { [ifg |-> IfgBand(GridSide, GridSide), cor |-> cm[1], msk |-> cm[2],
       inc |-> IncBand(h, GridSide), azi |-> AziBand(h, GridSide),
       gt |-> GeoTransform] :
        cm \in CorMskFiles, h \in LosHeights }

\* cor_thresh of the two notebooks, in hundredths
Thresholds == {20, 25}

\* crop bounds a user may type: any row window, and the column windows
\* "all (sentinel)", "all (explicit)" and "all but the first"
CropWindows ==
    { [ymin |-> y0, ymax |-> y1, xmin |-> x0, xmax |-> x1] :
        y0 \in 0..(GridSide - 1), y1 \in {-1} \cup (1..GridSide),
        x0 \in 0..1, x1 \in {-1, GridSide} }

NoCrop == [ymin |-> 0, ymax |-> 0, xmin |-> 0, xmax |-> 0]
NoScene == [set |-> FALSE, displacement |-> <<>>, theta |-> <<>>, phi |-> <<>>,
            llLat |-> 0, llLon |-> 0, dN |-> 0, dE |-> 0]

----------------------------------------------------------------------------
(* EarthScope2024 3.1: quadtree_decomposition_kite_workflow *)

\* "load in your data manually": band 2 of the interferogram
ReadCell ==
    /\ nb = "EarthScope2024"
    /\ pc = "start"
    /\ pc' = "read"
    /\ ifg' = files.ifg
    /\ UNCHANGED <<nb, err, files, use_water_mask, cor_thresh,
                   cor, inc, azi, msk, crop, nrows, sc>>
    /\ UNCHANGED <<okinvVars, fwdVars, ariaVars, gdalVars>>
    \* ifgfile=gdal.Open(...) stays bound
    /\ open_ds' = open_ds \cup {"ifgfile"}

\* the displacement after the water mask, the conversion and the
\* coherence mask, given the flipped arrays
Masked(f, c, m, wm, thresh) ==
    LET watered == IF wm THEN MaskWhere(f, LessThan(m, 1)) ELSE f
    IN  MaskWhere(ToMeters(watered), LessThan(c, thresh))

\* the scene with llLat = gt[3]+ymin*gt[5]: the corner taken at the top of
\* the window
MakeSceneTopCorner(f, i, a, gt, n, w) ==
    LET ymax == IF w.ymax = -1 THEN n ELSE w.ymax
    IN  [set |-> TRUE,
         dN |-> IF gt[5] < 0 THEN -gt[5] ELSE gt[5],
         dE |-> gt[1],
         llLat |-> gt[3] + w.ymin * gt[5],
         llLon |-> gt[0] + w.xmin * gt[1],
         displacement |-> Slice2(f, n - ymax, n - w.ymin, w.xmin, w.xmax),
         theta |-> Radians(NinetyMinus(Slice2(i, n - ymax, n - w.ymin, w.xmin, w.xmax))),
         phi |-> Radians(NinetyPlus(Slice2(a, n - ymax, n - w.ymin, w.xmin, w.xmax)))]

\* the scene the cell builds from the masked arrays
MakeScene(f, i, a, gt, n, w) ==
    LET ymax == IF w.ymax = -1 THEN n ELSE w.ymax
    IN  [set |-> TRUE,
         dN |-> IF gt[5] < 0 THEN -gt[5] ELSE gt[5],
         dE |-> gt[1],
         llLat |-> gt[3] + ymax * gt[5],
         llLon |-> gt[0] + w.xmin * gt[1],
         displacement |-> Slice2(f, n - ymax, n - w.ymin, w.xmin, w.xmax),
         theta |-> Radians(NinetyMinus(Slice2(i, n - ymax, n - w.ymin, w.xmin, w.xmax))),
         phi |-> Radians(NinetyPlus(Slice2(a, n - ymax, n - w.ymin, w.xmin, w.xmax)))]

\* "specify crop bounds ...": flip, read the other rasters, mask, convert,
\* crop and fill the scene.  A boolean index of another shape raises
\* IndexError and the rest of the cell does not run.
LoadCropMask(from, to) ==
    /\ nb = "EarthScope2024"
    /\ pc = from
    /\ \E w \in CropWindows :
        LET f0 == Flip0(ifg)
            c == Flip0(files.cor)
            i == Flip0(files.inc)
            a == Flip0(files.azi)
            m == Flip0(files.msk)
            mskOk == (~use_water_mask) \/ Shape(m) = Shape(f0)
            corOk == Shape(c) = Shape(f0)
            n == Len(files.inc)
        IN  /\ pc' = to
            /\ cor' = c
            /\ inc' = i
            /\ azi' = a
            /\ msk' = IF use_water_mask THEN m ELSE msk
            /\ IF mskOk /\ corOk
               THEN /\ err' = ""
                    /\ ifg' = Masked(f0, c, m, use_water_mask, cor_thresh)
                    /\ nrows' = n
                    /\ crop' = [w EXCEPT !.ymax = IF w.ymax = -1 THEN n ELSE w.ymax]
                    /\ sc' = MakeScene(ifg', i, a, files.gt, n, w)
               ELSE /\ err' = "IndexError"
                    \* the water mask was applied and the conversion done
                    \* when it is the coherence index that fails
                    /\ ifg' = IF mskOk
                              THEN ToMeters(IF use_water_mask
                                            THEN MaskWhere(f0, LessThan(m, 1))
                                            ELSE f0)
                              ELSE f0
                    /\ crop' = w
                    /\ UNCHANGED <<nrows, sc>>
    /\ UNCHANGED <<nb, files, use_water_mask, cor_thresh>>
    /\ UNCHANGED <<okinvVars, fwdVars, ariaVars, gdalVars>>
    \* corfile, losfile and, under use_water_mask, mskfile are opened before
    \* the first mask is applied, and stay bound
    /\ open_ds' = open_ds \cup {"corfile", "losfile"}
                     \cup (IF use_water_mask THEN {"mskfile"} ELSE {})

\* the cell run after the read cell
LoadCropMaskCell == LoadCropMask("read", "load")

\* the cell run once more, with crop bounds typed anew, on the kernel the
\* first run left
RerunLoadCropMaskCell == LoadCropMask("load", "reload")

----------------------------------------------------------------------------
(* UNAVCO2021 3.2: quadtree_decomposition_kite *)

\* sc = Scene.import_data(...): kite holds the grid with its origin at the
\* lower left
ImportCell ==
    /\ nb = "UNAVCO2021"
    /\ pc = "start"
    /\ pc' = "import"
    /\ sc' = [NoScene EXCEPT !.set = TRUE, !.displacement = Flip0(files.ifg)]
    /\ UNCHANGED <<nb, err, files, use_water_mask, cor_thresh,
                   ifg, cor, inc, azi, msk, crop, nrows>>
    /\ UNCHANGED <<okinvVars, fwdVars, ariaVars, gdalVars>>
    /\ UNCHANGED open_ds

\* read and flip the coherence and the water mask
ReadMasksCell ==
    /\ nb = "UNAVCO2021"
    /\ pc = "import"
    /\ pc' = "masks"
    /\ cor' = Flip0(files.cor)
    /\ msk' = Flip0(files.msk)
    /\ UNCHANGED <<nb, err, files, use_water_mask, cor_thresh,
                   ifg, inc, azi, crop, nrows, sc>>
    /\ UNCHANGED <<okinvVars, fwdVars, ariaVars, gdalVars>>
    \* corfile and mskfile stay bound
    /\ open_ds' = open_ds \cup {"corfile", "mskfile"}

\* sc.displacement *= wavel/4/math.pi
ConvertCell ==
    /\ nb = "UNAVCO2021"
    /\ pc = "masks"
    /\ pc' = "convert"
    /\ sc' = [sc EXCEPT !.displacement = ToMeters(@)]
    /\ UNCHANGED <<nb, err, files, use_water_mask, cor_thresh,
                   ifg, cor, inc, azi, msk, crop, nrows>>
    /\ UNCHANGED <<okinvVars, fwdVars, ariaVars, gdalVars>>
    /\ UNCHANGED open_ds

\* sc.displacement[msk<1] = np.nan; sc.displacement[cor<cor_thresh] = np.nan
MaskCell ==
    /\ nb = "UNAVCO2021"
    /\ pc = "convert"
    /\ pc' = "mask"
    /\ LET d == sc.displacement
           mskOk == Shape(msk) = Shape(d)
           corOk == Shape(cor) = Shape(d)
           watered == IF mskOk THEN MaskWhere(d, LessThan(msk, 1)) ELSE d
       IN  /\ err' = IF mskOk /\ corOk THEN "" ELSE "IndexError"
           /\ sc' = [sc EXCEPT !.displacement =
                        IF mskOk /\ corOk
                        THEN MaskWhere(watered, LessThan(cor, cor_thresh))
                        ELSE watered]
    /\ UNCHANGED <<nb, files, use_water_mask, cor_thresh,
                   ifg, cor, inc, azi, msk, crop, nrows>>
    /\ UNCHANGED <<okinvVars, fwdVars, ariaVars, gdalVars>>
    /\ UNCHANGED open_ds

----------------------------------------------------------------------------
(* EarthScope2024 3.1, "Processing the quadtree output" and "Saving the     *)
(* output".  A float of this part is an integer count of ticks of 10^-7 of *)
(* its unit (degrees are counted in 0.001 degree, as in GeoTransform).     *)

TicksPerUnit == 10 * 1000 * 1000

Neg(x) == 0 - x
Abs(x) == IF x < 0 THEN Neg(x) ELSE x

\* n / d rounded to the nearest integer, halves to even, for n >= 0, d > 0
RoundHalfEven(n, d) ==
    LET q == n \div d
        r == n % d
    IN  IF 2 * r > d THEN q + 1
        ELSE IF 2 * r = d THEN q + (q % 2)
        ELSE q

\* the float x / d
FloatDiv(x, d) ==
    IF x < 0 THEN Neg(RoundHalfEven(Neg(x), d)) ELSE RoundHalfEven(x, d)

\* the values np.cos and np.sin take are held exactly, in units of 1/TrigDen;
\* an angle is the pair of them
TrigDen == 5 * 5
LosDen == TrigDen * TrigDen

AngleList ==
    << <<25, 0>>, <<24, 7>>, <<20, 15>>, <<15, 20>>, <<7, 24>>,
       <<0, 25>>, <<-7, 24>>, <<-15, 20>>, <<-20, 15>>, <<-24, 7>>,
       <<-25, 0>>, <<-24, -7>>, <<-20, -15>>, <<-15, -20>>, <<-7, -24>>,
       <<0, -25>>, <<7, -24>>, <<15, -20>>, <<20, -15>>, <<24, -7>> >>

Angle(k) == [cos |-> AngleList[k][1], sin |-> AngleList[k][2]]

\* mean displacements of a leaf in ticks of a metre: some fall between two
\* six-decimal numbers, one rounds to minus zero
MeanList == <<441655, -441655, 0, -3, 1234565, 15, 2000000, -1999995>>

\* leaf centres, east and north of the lower-left corner, in 0.001 degree
FocalList == << <<5, 5>>, <<15, 5>>, <<5, 15>>, <<15, 15>>, <<10, 10>> >>

PoolSize == Len(AngleList) * Len(AngleList)

\* the k-th leaf of the pool: every pair (theta, phi) occurs once
PoolLeaf(k) ==
    [focal |-> FocalList[((k \div 3) % Len(FocalList)) + 1],
     mean |-> MeanList[(k % Len(MeanList)) + 1],
     theta |-> Angle((k % Len(AngleList)) + 1),
     phi |-> Angle((k \div Len(AngleList)) + 1)]

\* at most this many leaves
MaxLeaves == 2

\* what qt.leaves may hold when the reformat cell is reached: at least one
\* leaf, since the plot cell took qt.leaf_medians.max()
LeafSets ==
    { [i \in 1..n |-> PoolLeaf((k + 7 * (i - 1)) % PoolSize)] :
        k \in 0..(PoolSize - 1), n \in 1..MaxLeaves }

NoLeaves == [leaves |-> <<>>]

\* kite's per-leaf arrays, in the order of qt.leaves
leaf_focal_points(q) == [i \in 1..Len(q.leaves) |-> q.leaves[i].focal]
leaf_means(q) == [i \in 1..Len(q.leaves) |-> q.leaves[i].mean]
leaf_thetas(q) == [i \in 1..Len(q.leaves) |-> q.leaves[i].theta]
leaf_phis(q) == [i \in 1..Len(q.leaves) |-> q.leaves[i].phi]

\* utm.from_latlon(lat, lon) -> (easting, northing), in ticks of a metre: a
\* stand-in that is one-to-one and increasing in each coordinate
UtmFromLatLon(lat, lon) ==
    <<(lon - 37990) * 33333000, (lat - 38960) * 22227000>>

\* reflat = sc.frame.llLat; reflon = sc.frame.llLon
RefPointCell ==
    /\ nb = "EarthScope2024"
    /\ pc = "leaves"
    /\ pc' = "refpoint"
    /\ reflat' = sc.llLat
    /\ reflon' = sc.llLon
    /\ UNCHANGED <<nb, err, files, use_water_mask, cor_thresh,
                   ifg, cor, inc, azi, msk, crop, nrows, sc>>
    /\ UNCHANGED <<qt, xyll, losx, losy, losz, dataptid, xkm, ykm,
                   okinv_data, okinv_file, fwdVars, ariaVars, gdalVars>>
    /\ UNCHANGED open_ds

\* np.column_stack((focal[:,0] + reflon, focal[:,1] + reflat))
XyLl(q, lat0, lon0) ==
    [i \in 1..Len(q.leaves) |->
        <<leaf_focal_points(q)[i][1] + lon0, leaf_focal_points(q)[i][2] + lat0>>]

\* losz = -np.cos(theta): the wrong function
LosZCos(q) ==
    [i \in 1..Len(q.leaves) |-> Neg(leaf_thetas(q)[i].cos) * TrigDen]

\* losz = np.sin(theta): the up-looking vertical component
LosZUp(q) ==
    [i \in 1..Len(q.leaves) |-> leaf_thetas(q)[i].sin * TrigDen]

\* the LOS components, in units of 1/LosDen
LosX(q) ==
    [i \in 1..Len(q.leaves) |-> leaf_thetas(q)[i].cos * Neg(leaf_phis(q)[i].cos)]
LosY(q) ==
    [i \in 1..Len(q.leaves) |-> leaf_thetas(q)[i].cos * Neg(leaf_phis(q)[i].sin)]
LosZ(q) ==
    [i \in 1..Len(q.leaves) |-> Neg(leaf_thetas(q)[i].sin) * TrigDen]

\* np.arange(0, n): ids that start at 0
DataPtIdFromZero(n) == [i \in 1..n |-> i - 1]

\* np.arange(1, n + 1)
DataPtId(n) == [i \in 1..n |-> i]

\* xym[0] / 1000 and xym[1] / 1000
Km(ll, c) ==
    [i \in 1..Len(ll) |-> FloatDiv(UtmFromLatLon(ll[i][2], ll[i][1])[c], 1000)]

ReformatCell ==
    /\ nb = "EarthScope2024"
    /\ pc = "refpoint"
    /\ pc' = "reformat"
    /\ xyll' = XyLl(qt, reflat, reflon)
    /\ losx' = LosX(qt)
    /\ losy' = LosY(qt)
    /\ losz' = LosZ(qt)
    /\ dataptid' = DataPtId(Len(losx'))
    /\ xkm' = Km(xyll', 1)
    /\ ykm' = Km(xyll', 2)
    /\ UNCHANGED <<nb, err, files, use_water_mask, cor_thresh,
                   ifg, cor, inc, azi, msk, crop, nrows, sc>>
    /\ UNCHANGED <<qt, reflat, reflon, okinv_data, okinv_file, fwdVars, ariaVars, gdalVars>>
    /\ UNCHANGED open_ds

\* a value in units of 1/LosDen as a float
LosFloat(x) == x * (TicksPerUnit \div LosDen)

\* np.column_stack((xkm, ykm, qt.leaf_means, losx, losy, losz, dataptid)):
\* one float row per element of xkm
ColumnStack(x, y, m, lx, ly, lz, id) ==
    [i \in 1..Len(x) |->
        <<x[i], y[i], m[i], LosFloat(lx[i]), LosFloat(ly[i]), LosFloat(lz[i]),
          id[i] * TicksPerUnit>>]

\* '%f' % v: sign, integer digits and six decimals of v rounded
FormatF(v) ==
    LET m == RoundHalfEven(Abs(v), 10)
    IN  [neg |-> v < 0, int |-> m \div 1000000, frac |-> m % 1000000, places |-> 6]

\* '%d' % v: sign and integer digits of v truncated
FormatD(v) ==
    [neg |-> v < 0, int |-> Abs(v) \div TicksPerUnit, frac |-> 0, places |-> 0]

\* fmt % tuple(row) with fmt = '%f %f %f %f %f %f %d': the seven fields
FormatRow(r) ==
    <<FormatF(r[1]), FormatF(r[2]), FormatF(r[3]), FormatF(r[4]),
      FormatF(r[5]), FormatF(r[6]), FormatD(r[7])>>

\* np.savetxt(outfile, okinv_data, fmt=...): one line per row
SaveTxt(a) == [i \in 1..Len(a) |-> FormatRow(a[i])]

SaveCell ==
    /\ nb = "EarthScope2024"
    /\ pc = "reformat"
    /\ pc' = "save"
    /\ okinv_data' = ColumnStack(xkm, ykm, leaf_means(qt), losx, losy, losz, dataptid)
    /\ okinv_file' = [exists |-> TRUE, lines |-> SaveTxt(okinv_data')]
    /\ UNCHANGED <<nb, err, files, use_water_mask, cor_thresh,
                   ifg, cor, inc, azi, msk, crop, nrows, sc>>
    /\ UNCHANGED <<qt, reflat, reflon, xyll, losx, losy, losz, dataptid,
                   xkm, ykm, fwdVars, ariaVars, gdalVars>>
    /\ UNCHANGED open_ds

----------------------------------------------------------------------------
(* The okapy forward-model notebook *)

\* float(field)
ParseFloat(t) ==
    LET m == t.int * TicksPerUnit
              + (IF t.places = 6 THEN t.frac * 10 ELSE 0)
    IN  IF t.neg THEN Neg(m) ELSE m

\* np.loadtxt(fname, delimiter=' ') with the default ndmin=0: axes of
\* length one are squeezed, so a file of one line gives a 1-D array of its
\* fields and an empty file an empty 1-D array
LoadTxt(lines) ==
    LET rows == [i \in 1..Len(lines) |->
                    [j \in 1..Len(lines[i]) |-> ParseFloat(lines[i][j])]]
    IN  IF Len(rows) = 0 THEN [ndim |-> 1, a |-> <<>>]
        ELSE IF Len(rows) = 1 THEN [ndim |-> 1, a |-> rows[1]]
        ELSE [ndim |-> 2, a |-> rows]

\* data[:,0] *= 1000; data[:,1] *= 1000
KmToM(rows) ==
    [i \in 1..Len(rows) |->
        [j \in 1..Len(rows[i]) |-> IF j <= 2 THEN rows[i][j] * 1000 ELSE rows[i][j]]]

\* data = np.loadtxt('./elazig_asc.okinv', delimiter=' ') and the two
\* conversions; data[:,0] on a 1-D array raises IndexError
LoadOkinvCell ==
    /\ fpc = "start"
    /\ okinv_file.exists
    /\ fpc' = "loaded"
    /\ LET d == LoadTxt(okinv_file.lines)
       IN  IF d.ndim = 2
           THEN /\ data' = [d EXCEPT !.a = KmToM(@)]
                /\ ferr' = ""
           ELSE /\ data' = d
                /\ ferr' = "IndexError"
    /\ UNCHANGED <<model_los_disps, penalty, zero_shift>>
    /\ UNCHANGED <<loadVars, okinvVars, ariaVars, gdalVars>>

NoData == [ndim |-> 0, a |-> <<>>]
NoFile == [exists |-> FALSE, lines |-> <<>>]

\* a float of the penalty cells is held exactly, as the quotient num / den
\* in lowest terms with den > 0, in ticks (num / den ticks of a metre for a
\* displacement, ticks squared for a penalty); rounding is not modelled
RECURSIVE Gcd(_, _)
Gcd(a, b) == IF b = 0 THEN a ELSE Gcd(b, a % b)

Quot(n, d) ==
    LET g == Gcd(Abs(n), d)
    IN  [num |-> n \div g, den |-> d \div g]

QSub(a, b) == Quot(a.num * b.den - b.num * a.den, a.den * b.den)
QAdd(a, b) == Quot(a.num * b.den + b.num * a.den, a.den * b.den)
QMul(a, b) == Quot(a.num * b.num, a.den * b.den)

\* not assigned yet
NoFloat == [num |-> 0, den |-> 0]

\* data[:,2]
Column3(d) == [i \in 1..Len(d.a) |-> Quot(d.a[i][3], 1)]

\* a - b for two arrays, element by element
Minus(a, b) == [i \in 1..Len(a) |-> QSub(a[i], b[i])]

\* a + x for an array and a scalar, where a - x is meant
PlusScalar(a, x) == [i \in 1..Len(a) |-> QAdd(a[i], x)]

\* a - x for an array and a scalar
MinusScalar(a, x) == [i \in 1..Len(a) |-> QSub(a[i], x)]

\* a itself, where np.square(a) is meant
NotSquared(a) == a

\* np.square(a)
Square(a) == [i \in 1..Len(a) |-> QMul(a[i], a[i])]

\* np.sum(a)
RECURSIVE NpSum(_)
NpSum(a) == IF Len(a) = 0 THEN Quot(0, 1) ELSE QAdd(a[1], NpSum(Tail(a)))

\* np.sum(a), where np.mean(a) is meant
SumForMean(a) == NpSum(a)

\* np.mean(a)
NpMean(a) == QMul(NpSum(a), Quot(1, Len(a)))

\* the displacements okapy may return for one point, in ticks of a metre
ModelList == <<-15, 0, 5, 30>>

\* model_los_disps = rect_shear_fault(fparams, eparams, data): okapy gives
\* one displacement per data point
ForwardModelCell ==
    /\ fpc = "loaded"
    /\ ferr = ""
    /\ fpc' = "model"
    /\ \E m \in [1..Len(data.a) -> {ModelList[k] : k \in 1..Len(ModelList)}] :
        model_los_disps' = [i \in 1..Len(data.a) |-> Quot(m[i], 1)]
    /\ UNCHANGED <<ferr, data, penalty, zero_shift>>
    /\ UNCHANGED <<loadVars, okinvVars, ariaVars, gdalVars>>

\* penalty = np.sum(np.square(data[:,2]-model_los_disps))
PenaltyCell ==
    /\ fpc = "model"
    /\ ferr = ""
    /\ fpc' = "penalty"
    /\ penalty' = NpSum(Square(Minus(Column3(data), model_los_disps)))
    /\ UNCHANGED <<ferr, data, model_los_disps, zero_shift>>
    /\ UNCHANGED <<loadVars, okinvVars, ariaVars, gdalVars>>

\* zero_shift = np.mean(data[:,2]-model_los_disps)
\* penalty = np.sum(np.square((data[:,2]-zero_shift)-model_los_disps))
ZeroShiftCell ==
    /\ fpc = "penalty"
    /\ ferr = ""
    /\ fpc' = "shift"
    /\ zero_shift' = NpMean(Minus(Column3(data), model_los_disps))
    /\ penalty' = NpSum(Square(Minus(MinusScalar(Column3(data), zero_shift'),
                                     model_los_disps)))
    /\ UNCHANGED <<ferr, data, model_los_disps>>
    /\ UNCHANGED <<loadVars, okinvVars, ariaVars, gdalVars>>

\* none of the penalty cells has run
PenaltyIdle ==
    /\ model_los_disps = <<>>
    /\ penalty = NoFloat
    /\ zero_shift = NoFloat

----------------------------------------------------------------------------
(* EarthScope2024 0.4, the ARIA-tools part of the file: setup, credential  *)
(* cells and product download                                              *)

\* a file that is never found, where os.path.exists(path) is meant
NeverExists(f) == FALSE

\* os.path.exists(path) of a file of the home directory
Exists(f) == f # "absent"

\* one download command of a cell and whether it succeeded
Download(cell, tool, ok) == [cell |-> cell, tool |-> tool, ok |-> ok]

\* a staged-data branch that fetches the zip whether or not it is there
FetchAnyway(aws_ok, wget_ok) ==
    IF aws_ok THEN <<Download("setup", "aws", TRUE)>>
    ELSE <<Download("setup", "aws", FALSE), Download("setup", "wget", wget_ok)>>

\* the staged-data branch: nothing is fetched when the zip is there; else
\* aws is run and, when it fails, wget
StagedDownloads(aws_ok, wget_ok) ==
    IF zip_file THEN <<>>
    ELSE IF aws_ok THEN <<Download("setup", "aws", TRUE)>>
    ELSE <<Download("setup", "aws", FALSE), Download("setup", "wget", wget_ok)>>

\* "Prep A. Initial setup of the notebook": imports, the ARIA-tools check,
\* and the staged data: download, verify, replace products by the unzipped
\* archive.  Only the failed import raises.
SetupCell ==
    /\ apc = "start"
    /\ aerr = ""
    /\ apc' = "setup"
    /\ IF ~aria_installed
       THEN /\ aerr' = "Exception"
            /\ UNCHANGED <<zip_file, products, dl_log>>
       ELSE /\ aerr' = ""
            /\ IF Use_Staged_Data
               THEN \E aws_ok, wget_ok \in BOOLEAN :
                        /\ dl_log' = dl_log \o StagedDownloads(aws_ok, wget_ok)
                        /\ zip_file' = (zip_file \/ aws_ok \/ wget_ok)
                        /\ products' = IF zip_file' THEN "staged" ELSE products
               ELSE UNCHANGED <<zip_file, products, dl_log>>
    /\ UNCHANGED <<Use_Staged_Data, aria_installed, netrc, topoapi, password_config>>
    /\ UNCHANGED <<loadVars, okinvVars, fwdVars, gdalVars>>

\* "create .topoapi if it does not exist"
TopoApiCell ==
    /\ apc = "setup"
    /\ aerr = ""
    /\ apc' = "topoapi"
    /\ topoapi' = IF Exists(topoapi) THEN topoapi ELSE "typed"
    /\ UNCHANGED <<aerr, Use_Staged_Data, aria_installed, zip_file, products,
                   netrc, password_config, dl_log>>
    /\ UNCHANGED <<loadVars, okinvVars, fwdVars, gdalVars>>

\* "create .netrc if it does not exist"
NetrcCell ==
    /\ apc = "topoapi"
    /\ aerr = ""
    /\ apc' = "netrc"
    /\ netrc' = IF Exists(netrc) THEN netrc ELSE "typed"
    /\ UNCHANGED <<aerr, Use_Staged_Data, aria_installed, zip_file, products,
                   topoapi, password_config, dl_log>>
    /\ UNCHANGED <<loadVars, okinvVars, fwdVars, gdalVars>>

\* if not Use_Staged_Data: !ariaDownload.py ...; a shell line does not raise
AriaDownloadCell ==
    /\ apc = "netrc"
    /\ aerr = ""
    /\ apc' = "download"
    /\ IF Use_Staged_Data
       THEN UNCHANGED <<products, dl_log>>
       ELSE \E ok \in BOOLEAN :
                /\ dl_log' = Append(dl_log, Download("download", "ariaDownload.py", ok))
                /\ products' = IF ok THEN "downloaded" ELSE products
    /\ UNCHANGED <<aerr, Use_Staged_Data, aria_installed, zip_file,
                   netrc, topoapi, password_config>>
    /\ UNCHANGED <<loadVars, okinvVars, fwdVars, gdalVars>>

\* !ls products
LsProductsCell ==
    /\ apc = "download"
    /\ aerr = ""
    /\ apc' = "ls"
    /\ UNCHANGED <<aerr, Use_Staged_Data, aria_installed, zip_file, products,
                   netrc, topoapi, password_config, dl_log>>
    /\ UNCHANGED <<loadVars, okinvVars, fwdVars, gdalVars>>

\* the ARIA notebook is not being run
AriaIdle ==
    /\ apc = "start" /\ aerr = ""
    /\ Use_Staged_Data = TRUE
    /\ aria_installed = TRUE
    /\ zip_file = FALSE
    /\ products = "absent"
    /\ netrc = "absent" /\ topoapi = "absent" /\ password_config = "absent"
    /\ dl_log = <<>>

----------------------------------------------------------------------------
(* EarthScope2024 0.4, the helper functions: multiLook, multiLookCpx and   *)
(* plot_layer.  A dataset is open while a local name is bound to it; a VRT *)
(* dataset is written to its file when it is released.                     *)

\* the largest raster side and band count drawn
MaxRaster == 4
MaxBands == 4

\* the temporary files of multiLookCpx
inmemfile == "/vsimem/cpxlooks.2band.vrt"
inmemfile2 == "/vsimem/cpxlooks.multilooks.2band.vrt"
inmemfile3 == "/vsimem/cpxlooks.combine.vrt"
TempFiles == {inmemfile, inmemfile2, inmemfile3}

NoArgs == [xlooks |-> 0, ylooks |-> 0, lay_type |-> "", n_bands |-> 0]
NoOut == [width |-> 0, height |-> 0, srcWin |-> <<0, 0, 0, 0>>,
          cols |-> <<>>, rows |-> <<>>]

\* a source window that is the whole input, where the looked part is meant
WholeRaster(xSize, ySize, xlooks, ylooks) == <<0, 0, xSize, ySize>>

\* a file that is left in place, where gdal.Unlink(path) is meant
KeepFile(fs, f) == fs

\* outXSize = xSize//xlooks, outYSize = ySize//ylooks
OutSize(size, looks) == size \div looks

\* srcWin=[0,0,outXSize*xlooks, outYSize*ylooks]
SrcWin(xSize, ySize, xlooks, ylooks) ==
    <<0, 0, OutSize(xSize, xlooks) * xlooks, OutSize(ySize, ylooks) * ylooks>>

\* the source pixels (along one axis) that gdal.Translate averages into
\* output pixel k (from 0) when srcSize pixels from off become outSize: those
\* that overlap [off + k*srcSize/outSize, off + (k+1)*srcSize/outSize)
Footprint(k, off, srcSize, outSize) ==
    { off + p : p \in { q \in 0..(srcSize - 1) :
                          /\ q * outSize < (k + 1) * srcSize
                          /\ (q + 1) * outSize > k * srcSize } }

\* gdal.Translate with width, height and srcWin
Translate(width, height, srcWin) ==
    [width |-> width, height |-> height, srcWin |-> srcWin,
     cols |-> [k \in 1..width |-> Footprint(k - 1, srcWin[1], srcWin[3], width)],
     rows |-> [k \in 1..height |-> Footprint(k - 1, srcWin[2], srcWin[4], height)]]

\* a dataset bound to a local name and the files it is made of or refers to
Dataset(name, ownfile, refs) == [name |-> name, file |-> ownfile, refs |-> refs]

\* name = None
Release(g, name) == { d \in g : d.name # name }

\* the VRT files written when the datasets of these names are released
Flushed(g, names) == { d.file : d \in { e \in g : e.name \in names } } \cap TempFiles

\* gdal.Unlink(path)
Unlink(fs, f) == fs \ {f}

\* multiLook(infile, outfile, xlooks=, ylooks=): the whole function
MultiLook ==
    /\ gpc = "start"
    /\ \E xlooks \in 0..raster.xSize, ylooks \in 0..raster.ySize :
        /\ args' = [NoArgs EXCEPT !.xlooks = xlooks, !.ylooks = ylooks]
        /\ IF xlooks = 0 \/ ylooks = 0
           THEN /\ gerr' = "ZeroDivisionError"
                /\ gds' = gds \cup {Dataset("ds", "infile", {"infile"})}
                /\ out' = out
           ELSE /\ gerr' = ""
                /\ gds' = Release(gds \cup {Dataset("ds", "infile", {"infile"})}, "ds")
                /\ out' = Translate(OutSize(raster.xSize, xlooks),
                                    OutSize(raster.ySize, ylooks),
                                    SrcWin(raster.xSize, raster.ySize, xlooks, ylooks))
    /\ gpc' = "multiLook"
    /\ UNCHANGED <<raster, vsimem, panels>>
    /\ UNCHANGED <<loadVars, okinvVars, fwdVars, ariaVars>>

\* multiLookCpx, from the call to the output dimensions
CpxOpen ==
    /\ gpc = "start"
    /\ \E xlooks \in 0..raster.xSize, ylooks \in 0..raster.ySize :
        /\ args' = [NoArgs EXCEPT !.xlooks = xlooks, !.ylooks = ylooks]
        /\ gerr' = IF xlooks = 0 \/ ylooks = 0 THEN "ZeroDivisionError" ELSE ""
    /\ gds' = gds \cup {Dataset("ds", "infile", {"infile"})}
    /\ gpc' = "cpx_open"
    /\ UNCHANGED <<raster, out, vsimem, panels>>
    /\ UNCHANGED <<loadVars, okinvVars, fwdVars, ariaVars>>

\* the two-band real VRT over the input; ds = None
CpxRealImag ==
    /\ gpc = "cpx_open"
    /\ gerr = ""
    /\ gds' = Release(gds \cup {Dataset("rivrtds", inmemfile, {inmemfile, "infile"})},
                      "ds")
    /\ gpc' = "cpx_realimag"
    /\ UNCHANGED <<gerr, raster, args, out, vsimem, panels>>
    /\ UNCHANGED <<loadVars, okinvVars, fwdVars, ariaVars>>

\* mlvrtds = gdal.Translate(inmemfile2, rivrtds, ...); rivrtds = None;
\* mlvrtds = None
CpxTranslate ==
    /\ gpc = "cpx_realimag"
    /\ gerr = ""
    /\ LET g == gds \cup {Dataset("mlvrtds", inmemfile2, {inmemfile2, inmemfile})}
       IN  /\ vsimem' = vsimem \cup Flushed(g, {"rivrtds", "mlvrtds"})
           /\ gds' = Release(Release(g, "rivrtds"), "mlvrtds")
    /\ out' = Translate(OutSize(raster.xSize, args.xlooks),
                        OutSize(raster.ySize, args.ylooks),
                        SrcWin(raster.xSize, raster.ySize, args.xlooks, args.ylooks))
    /\ gpc' = "cpx_translate"
    /\ UNCHANGED <<gerr, raster, args, panels>>
    /\ UNCHANGED <<loadVars, okinvVars, fwdVars, ariaVars>>

\* mlvrtds = gdal.OpenShared(inmemfile2); the complex VRT over its two
\* bands; mlvrtds = None
CpxCombine ==
    /\ gpc = "cpx_translate"
    /\ gerr = ""
    /\ IF inmemfile2 \in vsimem
       THEN /\ gerr' = ""
            /\ gds' = Release(gds \cup {Dataset("mlvrtds", inmemfile2,
                                                {inmemfile2, inmemfile}),
                                        Dataset("cpxvrtds", inmemfile3,
                                                {inmemfile3, inmemfile2})},
                              "mlvrtds")
       ELSE /\ gerr' = "RuntimeError"
            /\ gds' = gds
    /\ gpc' = "cpx_combine"
    /\ UNCHANGED <<raster, args, out, vsimem, panels>>
    /\ UNCHANGED <<loadVars, okinvVars, fwdVars, ariaVars>>

\* outds = driver.CreateCopy(outfile, cpxvrtds); cpxvrtds = None;
\* outds = None.  A copy that cannot be written raises.
CpxCreateCopy ==
    /\ gpc = "cpx_combine"
    /\ gerr = ""
    /\ \E ok \in BOOLEAN :
        IF ok
        THEN /\ gerr' = ""
             /\ LET g == gds \cup {Dataset("outds", "outfile", {"outfile"})}
                IN  /\ vsimem' = vsimem \cup Flushed(g, {"cpxvrtds", "outds"})
                    /\ gds' = Release(Release(g, "cpxvrtds"), "outds")
        ELSE /\ gerr' = "RuntimeError"
             /\ UNCHANGED <<vsimem, gds>>
    /\ gpc' = "cpx_copy"
    /\ UNCHANGED <<raster, args, out, panels>>
    /\ UNCHANGED <<loadVars, okinvVars, fwdVars, ariaVars>>

\* gdal.Unlink of the three temporary files; the function returns
CpxUnlink ==
    /\ gpc = "cpx_copy"
    /\ gerr = ""
    /\ vsimem' = Unlink(Unlink(Unlink(vsimem, inmemfile), inmemfile2), inmemfile3)
    /\ gpc' = "cpx_return"
    /\ UNCHANGED <<gerr, raster, args, out, gds, panels>>
    /\ UNCHANGED <<loadVars, okinvVars, fwdVars, ariaVars>>

\* the layer types plot_layer tells apart, and one it does not
LayTypes == {"amplitude", "coherence", "water", "deformation", "topo", "ENU",
             "other"}

\* title = [os.path.basename(lay_type)]; for 'ENU', ['East', 'North', 'Up']
Titles(lay_type) ==
    IF lay_type = "ENU" THEN <<"East", "North", "Up">> ELSE <<lay_type>>

\* the titles set by the plotting loop over n axes: it stops at the first
\* axis that has no title
TitlesSet(title, n) ==
    [i \in 1..(IF n <= Len(title) THEN n ELSE Len(title)) |-> title[i]]

\* plot_layer(path_layer, lay_type, n_bands=): the whole function; n_bands 0
\* is the default None
PlotLayer ==
    /\ gpc = "start"
    /\ \E lay_type \in LayTypes, n_bands \in 0..MaxBands :
        LET n == IF n_bands = 0 THEN raster.count ELSE n_bands
            ds == Dataset("ds", "path_layer", {"path_layer"})
        IN  /\ args' = [NoArgs EXCEPT !.lay_type = lay_type, !.n_bands = n_bands]
            /\ IF n > raster.count
               THEN /\ gerr' = "RuntimeError"
                    /\ gds' = gds \cup {ds}
                    /\ panels' = panels
               ELSE /\ gds' = Release(gds \cup {ds}, "ds")
                    /\ IF n < 4
                       THEN /\ panels' = TitlesSet(Titles(lay_type), n)
                            /\ gerr' = IF n <= Len(Titles(lay_type)) THEN ""
                                       ELSE "IndexError"
                       ELSE /\ gerr' = "Number of bands currently unsupported"
                            /\ panels' = panels
    /\ gpc' = "plot_layer"
    /\ UNCHANGED <<raster, out, vsimem>>
    /\ UNCHANGED <<loadVars, okinvVars, fwdVars, ariaVars>>

\* no helper has been called
GdalIdle ==
    /\ gpc = "start" /\ gerr = ""
    /\ raster = [xSize |-> 1, ySize |-> 1, count |-> 1]
    /\ args = NoArgs
    /\ out = NoOut
    /\ vsimem = {}
    /\ gds = {}
    /\ panels = <<>>

\* nothing of the reformat and forward-model parts has run
OkinvIdle ==
    /\ qt = NoLeaves
    /\ reflat = 0 /\ reflon = 0
    /\ xyll = <<>> /\ losx = <<>> /\ losy = <<>> /\ losz = <<>>
    /\ dataptid = <<>> /\ xkm = <<>> /\ ykm = <<>>
    /\ okinv_data = <<>>
    /\ okinv_file = NoFile
    /\ fpc = "start" /\ ferr = "" /\ data = NoData
    /\ PenaltyIdle

----------------------------------------------------------------------------

Init ==
    /\ nb \in {"EarthScope2024", "UNAVCO2021"}
    /\ pc = "start"
    /\ err = ""
    /\ files \in Files
    /\ use_water_mask \in (IF nb = "EarthScope2024" THEN BOOLEAN ELSE {TRUE})
    /\ cor_thresh \in Thresholds
    /\ ifg = <<>> /\ cor = <<>> /\ inc = <<>> /\ azi = <<>> /\ msk = <<>>
    /\ crop = NoCrop
    /\ nrows = 0
    /\ sc = NoScene
    /\ open_ds = {}
    /\ OkinvIdle
    /\ AriaIdle
    /\ GdalIdle

Next ==
    \/ ReadCell
    \/ LoadCropMaskCell
    \/ ImportCell
    \/ ReadMasksCell
    \/ ConvertCell
    \/ MaskCell

Spec == Init /\ [][Next]_vars

----------------------------------------------------------------------------
(* The EarthScope notebook with its load cell run a second time *)

InitRerun == Init /\ nb = "EarthScope2024"

NextRerun ==
    \/ ReadCell
    \/ LoadCropMaskCell
    \/ RerunLoadCropMaskCell

SpecRerun == InitRerun /\ [][NextRerun]_vars

----------------------------------------------------------------------------
(* From the quadtree's leaves to the okinv file and into the forward model *)

\* the rasters of the scene the leaves come from
LeafSceneFiles ==
    [ifg |-> IfgBand(GridSide, GridSide),
     cor |-> CorBand(GridSide, GridSide, {<<1, 1>>}),
     msk |-> MskBand(GridSide, GridSide, {}),
     inc |-> IncBand(GridSide, GridSide), azi |-> AziBand(GridSide, GridSide),
     gt |-> GeoTransform]

\* the EarthScope notebook after its load cell and kite's quadtree
InitOkinv ==
    /\ nb = "EarthScope2024"
    /\ pc = "leaves"
    /\ err = ""
    /\ files = LeafSceneFiles
    /\ use_water_mask = TRUE
    /\ cor_thresh = 25
    /\ cor = Flip0(files.cor) /\ inc = Flip0(files.inc)
    /\ azi = Flip0(files.azi) /\ msk = Flip0(files.msk)
    /\ ifg = Masked(Flip0(files.ifg), cor, msk, use_water_mask, cor_thresh)
    /\ nrows = Len(files.inc)
    /\ \E w \in CropWindows :
        /\ w.ymin = 0 /\ w.xmax = GridSide
        /\ crop = [w EXCEPT !.ymax = IF w.ymax = -1 THEN nrows ELSE w.ymax]
        /\ sc = MakeScene(ifg, inc, azi, files.gt, nrows, w)
    /\ open_ds = {"ifgfile", "corfile", "losfile", "mskfile"}
    /\ qt \in { [leaves |-> l] : l \in LeafSets }
    /\ reflat = 0 /\ reflon = 0
    /\ xyll = <<>> /\ losx = <<>> /\ losy = <<>> /\ losz = <<>>
    /\ dataptid = <<>> /\ xkm = <<>> /\ ykm = <<>>
    /\ okinv_data = <<>>
    /\ okinv_file = NoFile
    /\ fpc = "start" /\ ferr = "" /\ data = NoData
    /\ PenaltyIdle
    /\ AriaIdle
    /\ GdalIdle

NextOkinv ==
    \/ RefPointCell
    \/ ReformatCell
    \/ SaveCell
    \/ LoadOkinvCell

SpecOkinv == InitOkinv /\ [][NextOkinv]_vars

----------------------------------------------------------------------------
(* The forward-model notebook from its load cell to the corrected penalty *)

\* the displacements a data point of the file may have, in ticks of a metre
\* (whole numbers of the sixth decimal)
ObsList == <<-30, 0, 10, 40>>

\* the rows of an okinv file of n data points with the displacements d:
\* point k lies k metres east and north of the origin and is seen from
\* straight above
PointRows(n, d) ==
    [k \in 1..n |->
        <<k * (TicksPerUnit \div 1000), k * (TicksPerUnit \div 1000), d[k],
          0, 0, Neg(TicksPerUnit), k * TicksPerUnit>>]

PenaltyFiles ==
    { [exists |-> TRUE, lines |-> SaveTxt(PointRows(n, d))] :
        d \in [1..MaxLeaves -> {ObsList[k] : k \in 1..Len(ObsList)}],
        n \in 1..MaxLeaves }

\* the forward-model notebook before its first cell, the okinv file on disk
InitPenalty ==
    /\ nb = "EarthScope2024"
    /\ pc = "start"
    /\ err = ""
    /\ files = LeafSceneFiles
    /\ use_water_mask = TRUE
    /\ cor_thresh = 25
    /\ ifg = <<>> /\ cor = <<>> /\ inc = <<>> /\ azi = <<>> /\ msk = <<>>
    /\ crop = NoCrop
    /\ nrows = 0
    /\ sc = NoScene
    /\ open_ds = {}
    /\ qt = NoLeaves
    /\ reflat = 0 /\ reflon = 0
    /\ xyll = <<>> /\ losx = <<>> /\ losy = <<>> /\ losz = <<>>
    /\ dataptid = <<>> /\ xkm = <<>> /\ ykm = <<>>
    /\ okinv_data = <<>>
    /\ okinv_file \in PenaltyFiles
    /\ fpc = "start" /\ ferr = "" /\ data = NoData
    /\ PenaltyIdle
    /\ AriaIdle
    /\ GdalIdle

NextPenalty ==
    \/ LoadOkinvCell
    \/ ForwardModelCell
    \/ PenaltyCell
    \/ ZeroShiftCell

SpecPenalty == InitPenalty /\ [][NextPenalty]_vars

----------------------------------------------------------------------------
(* The ARIA-tools part, top to bottom *)

\* what a credential file holds before the run: nothing, or what its owner
\* put there
CredentialStates == {"absent", "user"}

\* every other notebook idle
OthersIdle ==
    /\ nb = "EarthScope2024"
    /\ pc = "start"
    /\ err = ""
    /\ files = LeafSceneFiles
    /\ use_water_mask = TRUE
    /\ cor_thresh = 25
    /\ ifg = <<>> /\ cor = <<>> /\ inc = <<>> /\ azi = <<>> /\ msk = <<>>
    /\ crop = NoCrop
    /\ nrows = 0
    /\ sc = NoScene
    /\ open_ds = {}
    /\ OkinvIdle

InitAria ==
    /\ OthersIdle
    /\ apc = "start" /\ aerr = ""
    /\ Use_Staged_Data \in BOOLEAN
    /\ aria_installed \in BOOLEAN
    /\ zip_file \in BOOLEAN
    /\ products \in {"absent", "stale"}
    /\ netrc \in CredentialStates
    /\ topoapi \in CredentialStates
    /\ password_config \in CredentialStates
    /\ dl_log = <<>>
    /\ GdalIdle

NextAria ==
    \/ SetupCell
    \/ TopoApiCell
    \/ NetrcCell
    \/ AriaDownloadCell
    \/ LsProductsCell

SpecAria == InitAria /\ [][NextAria]_vars

----------------------------------------------------------------------------
(* The GDAL helpers, one call each on a raster of any small size *)

Rasters ==
    [xSize : 1..MaxRaster, ySize : 1..MaxRaster, count : 1..MaxBands]

InitGdal ==
    /\ OthersIdle
    /\ AriaIdle
    /\ gpc = "start" /\ gerr = ""
    /\ raster \in Rasters
    /\ args = NoArgs
    /\ out = NoOut
    /\ vsimem = {}
    /\ gds = {}
    /\ panels = <<>>

NextGdal ==
    \/ MultiLook
    \/ CpxOpen
    \/ CpxRealImag
    \/ CpxTranslate
    \/ CpxCombine
    \/ CpxCreateCopy
    \/ CpxUnlink
    \/ PlotLayer

SpecGdal == InitGdal /\ [][NextGdal]_vars

----------------------------------------------------------------------------
(* Mask/convert stage *)

\* the mask/convert stage ran to its end and the scene holds its result
MaskStageDone ==
    /\ err = ""
    /\ \/ nb = "EarthScope2024" /\ pc = "load"
       \/ nb = "UNAVCO2021" /\ pc = "mask"

\* the part of a lower-left-origin raster that lies under the scene
UnderScene(g) ==
    IF nb = "EarthScope2024"
    THEN Slice2(g, nrows - crop.ymax, nrows - crop.ymin, crop.xmin, crop.xmax)
    ELSE g

WaterMaskApplied == nb = "UNAVCO2021" \/ use_water_mask

ScenePixels ==
    { p \in Pixels(GridSide + 1, GridSide + 1) :
        /\ p[1] <= Len(sc.displacement)
        /\ p[2] <= Len(sc.displacement[p[1]]) }

LowCoherence(p) == UnderScene(Flip0(files.cor))[p[1]][p[2]] < cor_thresh
OnWater(p) == WaterMaskApplied /\ UnderScene(Flip0(files.msk))[p[1]][p[2]] < 1

\* C1: once the mask/convert stage is done, every pixel of the scene's
\* displacement whose coherence is below cor_thresh, or whose water-mask
\* value is below 1 when the water mask is applied, is NaN.
C1_MaskedPixelsAreNaN ==
    MaskStageDone =>
        \A p \in ScenePixels :
            (LowCoherence(p) \/ OnWater(p)) => sc.displacement[p[1]][p[2]].nan

\* a scene with a low-coherence pixel, a water pixel of good coherence, and
\* a good pixel that kept its value in metres
C1_Witness ==
    /\ MaskStageDone
    /\ nb = "EarthScope2024"
    /\ use_water_mask
    /\ \E p, q, r \in ScenePixels :
        /\ LowCoherence(p) /\ ~OnWater(p) /\ sc.displacement[p[1]][p[2]].nan
        /\ OnWater(q) /\ ~LowCoherence(q) /\ sc.displacement[q[1]][q[2]].nan
        /\ ~sc.displacement[r[1]][r[2]].nan

----------------------------------------------------------------------------
(* Coordinate/LOS reformatter *)

Reformatted == nb = "EarthScope2024" /\ pc \in {"reformat", "save"}

\* C8: for every leaf, the line-of-sight vector (losx, losy, losz) the
\* reformat cell computes from the leaf's theta and phi has magnitude 1.
C8_LosUnitMagnitude ==
    Reformatted =>
        /\ Len(losx) = Len(qt.leaves)
        /\ Len(losy) = Len(qt.leaves)
        /\ Len(losz) = Len(qt.leaves)
        /\ \A i \in 1..Len(qt.leaves) :
            losx[i] * losx[i] + losy[i] * losy[i] + losz[i] * losz[i]
                = LosDen * LosDen

\* a leaf seen obliquely: none of the three components is zero
C8_Witness ==
    /\ Reformatted
    /\ \E i \in 1..Len(qt.leaves) :
        losx[i] # 0 /\ losy[i] # 0 /\ losz[i] # 0 /\ losx[i] # losy[i]

Saved == nb = "EarthScope2024" /\ pc = "save" /\ okinv_file.exists

\* the line of the okinv file that belongs to leaf k of a scene whose
\* lower-left corner is at (lat0, lon0)
LineOfLeaf(leaf, k, lat0, lon0) ==
    LET en == UtmFromLatLon(leaf.focal[2] + lat0, leaf.focal[1] + lon0)
    IN  <<FormatF(FloatDiv(en[1], 1000)),
          FormatF(FloatDiv(en[2], 1000)),
          FormatF(leaf.mean),
          FormatF(LosFloat(leaf.theta.cos * Neg(leaf.phi.cos))),
          FormatF(LosFloat(leaf.theta.cos * Neg(leaf.phi.sin))),
          FormatF(LosFloat(Neg(leaf.theta.sin) * TrigDen)),
          [neg |-> FALSE, int |-> k, frac |-> 0, places |-> 0]>>

\* C9: the okinv file has one line per quadtree leaf; line k holds the
\* projected position, the mean displacement and the LOS vector of leaf k,
\* and its id is k: the ids are 1, 2, ..., N in line order.
C9_OneRowPerLeaf ==
    Saved =>
        /\ Len(okinv_file.lines) = Len(qt.leaves)
        /\ \A k \in 1..Len(qt.leaves) :
            okinv_file.lines[k] = LineOfLeaf(qt.leaves[k], k, sc.llLat, sc.llLon)

\* a file of two lines that differ in every field
C9_Witness ==
    /\ Saved
    /\ Len(okinv_file.lines) = 2
    /\ \A j \in 1..7 : okinv_file.lines[1][j] # okinv_file.lines[2][j]

----------------------------------------------------------------------------
(* Round trip through the okinv file *)

Loaded == fpc = "loaded"

\* half a unit of the sixth decimal
HalfMicro == TicksPerUnit \div 2000000

\* row k of what was loaded against row k of what was written: the id is
\* the same and the six values agree to the sixth decimal (x and y are held
\* in metres after the load, so they and their tolerance are 1000 times
\* what was written)
SameRow(got, put) ==
    /\ got[7] = put[7]
    /\ \A j \in 1..2 : Abs(got[j] - 1000 * put[j]) <= 1000 * HalfMicro
    /\ \A j \in 3..6 : Abs(got[j] - put[j]) <= HalfMicro

\* C10: what np.loadtxt reads back from the okinv file has as many rows as
\* were written, the same ids, and the same x, y, displacement and LOS
\* values to within the six decimals of the text.
C10_RoundTrip ==
    Loaded =>
        /\ data.ndim = 2
        /\ Len(data.a) = Len(okinv_data)
        /\ \A k \in 1..Len(okinv_data) : SameRow(data.a[k], okinv_data[k])

\* the same for files of two or more data points
C10_RoundTripOfSeveral ==
    (Loaded /\ Len(okinv_data) >= 2) =>
        /\ ferr = ""
        /\ data.ndim = 2
        /\ Len(data.a) = Len(okinv_data)
        /\ \A k \in 1..Len(okinv_data) : SameRow(data.a[k], okinv_data[k])

\* two rows came back, one with a value the text rounded
C10_SeveralWitness ==
    /\ Loaded
    /\ Len(okinv_data) >= 2
    /\ \E k \in 1..Len(okinv_data) : data.a[k][3] # okinv_data[k][3]

----------------------------------------------------------------------------
(* Units of the okinv coordinates *)

\* the UTM position (easting, northing) of the centre of leaf k, in ticks
\* of a metre
LeafUtm(k) ==
    UtmFromLatLon(qt.leaves[k].focal[2] + sc.llLat,
                  qt.leaves[k].focal[1] + sc.llLon)

\* columns x and y of row k of okinv_data are the leaf's UTM metres divided
\* by 1000, and that is what line k of the file holds to six decimals
WrittenInKm(k) ==
    \A j \in 1..2 :
        /\ okinv_data[k][j] = FloatDiv(LeafUtm(k)[j], 1000)
        /\ okinv_file.lines[k][j] = FormatF(okinv_data[k][j])

\* columns x and y of loaded row k are the leaf's UTM metres to within the
\* six decimals of the text (of a kilometre), and the other five columns
\* are the numbers of line k as they stand
LoadedInMetres(k) ==
    /\ \A j \in 1..2 : Abs(data.a[k][j] - LeafUtm(k)[j]) <= 1000 * HalfMicro
    /\ \A j \in 3..7 : data.a[k][j] = ParseFloat(okinv_file.lines[k][j])

\* C11: the x and y columns written to the okinv file are the leaves' UTM
\* coordinates in kilometres (metres / 1000); the forward-model notebook's
\* load cell multiplies the two columns by 1000 once, so the loaded
\* coordinates are the leaves' UTM metres, and the other five columns are
\* not scaled.
C11_KmWrittenMetresLoaded ==
    /\ Saved => \A k \in 1..Len(qt.leaves) : WrittenInKm(k)
    /\ (Saved /\ Loaded) =>
        /\ ferr = ""
        /\ data.ndim = 2
        /\ Len(data.a) = Len(qt.leaves)
        /\ \A k \in 1..Len(qt.leaves) : LoadedInMetres(k)

\* the same for files of two or more data points
C11_MetresLoadedOfSeveral ==
    /\ Saved => \A k \in 1..Len(qt.leaves) : WrittenInKm(k)
    /\ (Saved /\ Loaded /\ Len(qt.leaves) >= 2) =>
        /\ ferr = ""
        /\ data.ndim = 2
        /\ Len(data.a) = Len(qt.leaves)
        /\ \A k \in 1..Len(qt.leaves) : LoadedInMetres(k)

\* two rows came back with coordinates 1000 times those written
C11_SeveralWitness ==
    /\ Saved /\ Loaded
    /\ Len(qt.leaves) >= 2
    /\ \E k \in 1..Len(qt.leaves) :
        /\ okinv_data[k][1] > 0
        /\ data.a[k][1] >= 999 * okinv_data[k][1]
        /\ data.a[k][3] # 0

----------------------------------------------------------------------------
(* Penalty and zero-level shift *)

PenaltyComputed == fpc \in {"penalty", "shift"}
ShiftComputed == fpc = "shift"

\* C12: the total squared penalty is >= 0 whatever the observed and the
\* model displacements of the points are, both as the penalty cell computes
\* it and as the zero-shift cell computes it again.
C12_PenaltyNonNegative ==
    PenaltyComputed => (penalty.den > 0 /\ penalty.num >= 0)

\* a corrected penalty above zero of points whose mean residual is negative
C12_Witness ==
    /\ ShiftComputed
    /\ penalty.num > 0
    /\ zero_shift.num < 0

RECURSIVE SumInt(_)
SumInt(a) == IF Len(a) = 0 THEN 0 ELSE a[1] + SumInt(Tail(a))

\* observed - model per point, in ticks
Residual == [i \in 1..Len(data.a) |-> data.a[i][3] - model_los_disps[i].num]

\* n * n times the squared distance of each residual from the mean residual
ScaledSquares ==
    [i \in 1..Len(data.a) |->
        (Len(data.a) * Residual[i] - SumInt(Residual))
            * (Len(data.a) * Residual[i] - SumInt(Residual))]

\* C13: after the zero-shift cell, zero_shift is the mean over the n points
\* of (observed - model), and penalty is the sum over the points of
\* ((observed - zero_shift) - model)^2: the shift is taken off the
\* observed values.  Both are functions of the data and the model alone.
C13_ShiftIsMeanResidual ==
    ShiftComputed =>
        /\ zero_shift.den > 0
        /\ zero_shift.num * Len(data.a) = SumInt(Residual) * zero_shift.den
        /\ penalty.den > 0
        /\ penalty.num * Len(data.a) * Len(data.a)
              = SumInt(ScaledSquares) * penalty.den

\* a mean residual that is not a whole number of ticks, and points that do
\* not all lie on it
C13_Witness ==
    /\ ShiftComputed
    /\ zero_shift.den > 1
    /\ penalty.num > 0

----------------------------------------------------------------------------
(* Mismatched grid shapes *)

\* the cell that masks and converts was run
MaskCellRan ==
    \/ nb = "EarthScope2024" /\ pc = "load"
    \/ nb = "UNAVCO2021" /\ pc = "mask"

\* two rasters of as many rows and as many columns
SameDims(a, b) ==
    /\ Len(a) = Len(b)
    /\ \A i \in 1..Len(a) : Len(a[i]) = Len(b[i])

CorMismatch == ~SameDims(files.cor, files.ifg)
MskMismatch == WaterMaskApplied /\ ~SameDims(files.msk, files.ifg)

\* C14: when the coherence raster, or the water mask where it is applied,
\* is not of the shape of the displacement grid, the mask/convert cell
\* stops with the index error of a mismatched boolean mask: the stage is
\* not done, and the EarthScope notebook has built no scene.
C14_ShapeMismatchFails ==
    (MaskCellRan /\ (CorMismatch \/ MskMismatch)) =>
        /\ err = "IndexError"
        /\ ~MaskStageDone
        /\ (nb = "EarthScope2024" => ~sc.set)

\* a coherence raster one row taller: the cell stopped at the coherence
\* mask, after the conversion to metres
C14_Witness ==
    /\ nb = "EarthScope2024"
    /\ pc = "load"
    /\ CorMismatch
    /\ ~MskMismatch
    /\ err = "IndexError"
    /\ ifg = ToMeters(Flip0(files.ifg))

----------------------------------------------------------------------------
(* Crop window *)

\* the load cell ran to its end
SceneLoaded == nb = "EarthScope2024" /\ pc = "load" /\ err = ""

\* the crop bounds were left at ymin=0, ymax=-1, xmin=0, xmax=-1 (the cell
\* has put nrows in ymax)
DefaultWindow ==
    crop = [ymin |-> 0, ymax |-> nrows, xmin |-> 0, xmax |-> -1]

\* C15: with the crop bounds at minima 0 and maxima -1, the scene's
\* displacement, theta and phi are the full grids: every row and every
\* column of the masked interferogram and of the two LOS bands.
C15_DefaultWindowIsFullScene ==
    (SceneLoaded /\ DefaultWindow) =>
        /\ sc.displacement = ifg
        /\ sc.theta = Radians(NinetyMinus(inc))
        /\ sc.phi = Radians(NinetyPlus(azi))

\* what the cell gives instead: every row, and every column but the last
C15_DefaultWindowDropsLastColumn ==
    (SceneLoaded /\ DefaultWindow) =>
        /\ Len(sc.displacement) = Len(ifg)
        /\ \A i \in 1..Len(ifg) :
            sc.displacement[i] = SubSeq(ifg[i], 1, Len(ifg[i]) - 1)

\* the LOS raster has as many rows and columns as the interferogram
LosMatches == SameDims(files.inc, files.ifg) /\ SameDims(files.azi, files.ifg)

\* C16: after the load cell, the scene's displacement, theta and phi have
\* the same number of rows and of columns, whatever crop window was typed,
\* the -1 sentinels included.
C16_SceneGridsSameDims ==
    SceneLoaded =>
        /\ SameDims(sc.displacement, sc.theta)
        /\ SameDims(sc.displacement, sc.phi)

\* the same when the LOS raster is of the shape of the interferogram
C16_SameDimsWhenLosMatches ==
    (SceneLoaded /\ LosMatches) =>
        /\ SameDims(sc.displacement, sc.theta)
        /\ SameDims(sc.displacement, sc.phi)

----------------------------------------------------------------------------
(* Raster dataset handles *)

\* C17: at no point of a notebook run is more than one raster dataset open:
\* each is released before the next is opened.
C17_OneDatasetAtATime == Cardinality(open_ds) <= 1

----------------------------------------------------------------------------
(* Downloads *)

\* C18: a failed download halts the workflow: once a download command has
\* failed, no further download command is run for it and no later cell is
\* started, so the failed command is the last one of the log and the
\* notebook is still at the cell that ran it.
C18_FailedDownloadHalts ==
    \A i \in 1..Len(dl_log) :
        ~dl_log[i].ok => (i = Len(dl_log) /\ apc = dl_log[i].cell)

----------------------------------------------------------------------------
(* Credential files *)

----------------------------------------------------------------------------
(* Angle convention *)

AnglePixels ==
    { p \in Pixels(GridSide + 1, GridSide + 1) :
        /\ p[1] <= Len(sc.theta)
        /\ p[2] <= Len(sc.theta[p[1]]) }

\* the incidence angle (from the vertical) and the azimuth (from North) the
\* LOS raster gives for the pixel of the scene, in microradians
IncidenceAt(p) == UnderScene(Flip0(files.inc))[p[1]][p[2]] * MicroRadPerDeg
AzimuthAt(p) == UnderScene(Flip0(files.azi))[p[1]][p[2]] * MicroRadPerDeg

QuarterTurn == 90 * MicroRadPerDeg

\* phi is the raster's azimuth turned from North to East as the origin
PhiFromEast ==
    /\ Len(sc.phi) = Len(sc.theta)
    /\ \A p \in AnglePixels : sc.phi[p[1]][p[2]] = AzimuthAt(p) + QuarterTurn

\* C20 as stated: theta of the scene is the angle from the vertical, that
\* is the raster's incidence angle in radians, and phi is counted
\* counter-clockwise from East, for every pixel of the scene.
C20_ThetaFromVertical ==
    SceneLoaded =>
        /\ \A p \in AnglePixels : sc.theta[p[1]][p[2]] = IncidenceAt(p)
        /\ PhiFromEast

\* C20: theta of the scene is the elevation of the line of sight above the
\* horizontal, a quarter turn minus the raster's incidence angle, and phi
\* is counted counter-clockwise from East, both in radians, for every pixel
\* of the scene.
C20_ThetaFromHorizontal ==
    SceneLoaded =>
        /\ \A p \in AnglePixels :
            sc.theta[p[1]][p[2]] + IncidenceAt(p) = QuarterTurn
        /\ PhiFromEast

\* a scene whose pixels differ in theta and in phi
C20_Witness ==
    /\ SceneLoaded
    /\ \E p, q \in AnglePixels :
        /\ sc.theta[p[1]][p[2]] # sc.theta[q[1]][q[2]]
        /\ sc.phi[p[1]][p[2]] # sc.phi[q[1]][q[2]]

----------------------------------------------------------------------------
(* Direction of the LOS vector *)

\* theta of leaf i lies in [0, pi/2]
ThetaInFirstQuadrant(i) ==
    qt.leaves[i].theta.cos >= 0 /\ qt.leaves[i].theta.sin >= 0

\* C21: for every leaf with theta in [0, pi/2] the LOS vector points from
\* the satellite down to the ground: losz <= 0, and (losx, losy) is
\* -(cos(phi), sin(phi)) scaled by cos(theta); the sixth field of the
\* leaf's line in the okinv file is not positive either.
C21_LosPointsDown ==
    /\ Reformatted =>
        \A i \in 1..Len(qt.leaves) :
            ThetaInFirstQuadrant(i) =>
                /\ losz[i] <= 0
                /\ losx[i] + qt.leaves[i].phi.cos * qt.leaves[i].theta.cos = 0
                /\ losy[i] + qt.leaves[i].phi.sin * qt.leaves[i].theta.cos = 0
    /\ Saved =>
        \A i \in 1..Len(qt.leaves) :
            ThetaInFirstQuadrant(i) =>
                /\ ParseFloat(okinv_file.lines[i][6]) <= 0
                /\ ParseFloat(okinv_file.lines[i][6]) = LosFloat(losz[i])

\* a leaf seen obliquely from the north-west was written: the vector goes
\* down, east and south
C21_Witness ==
    /\ Saved
    /\ \E i \in 1..Len(qt.leaves) :
        /\ ThetaInFirstQuadrant(i)
        /\ qt.leaves[i].phi.cos < 0 /\ qt.leaves[i].phi.sin > 0
        /\ losz[i] < 0 /\ losx[i] > 0 /\ losy[i] < 0

----------------------------------------------------------------------------
(* What the crop window keeps *)

\* the window lies inside the raster and is not empty: 0 <= ymin < ymax <=
\* nrows and 0 <= xmin < xmax <= ncols, nrows being what the cell took it
\* to be
WindowInside ==
    /\ 0 <= crop.ymin /\ crop.ymin < crop.ymax /\ crop.ymax <= nrows
    /\ 0 <= crop.xmin /\ crop.xmin < crop.xmax /\ crop.xmax <= Len(files.inc[1])

\* the masked displacement and the two angles of the top-left-origin
\* rasters, row 1 being the northernmost
TopLeftDisplacement == Flip0(ifg)
TopLeftTheta == Radians(NinetyMinus(files.inc))
TopLeftPhi == Radians(NinetyPlus(files.azi))

\* the scene grid g holds rows ymin..ymax-1 and columns xmin..xmax-1 of the
\* top-left-origin grid t, the southernmost kept row first
KeepsWindow(g, t) ==
    /\ crop.ymax <= Len(t)
    /\ Len(g) = crop.ymax - crop.ymin
    /\ \A k \in 1..Len(g) :
        /\ Len(g[k]) = crop.xmax - crop.xmin
        /\ \A j \in 1..Len(g[k]) : g[k][j] = t[crop.ymax - k + 1][crop.xmin + j]

\* C22: for a crop window inside the raster, given from the top left, the
\* scene's displacement, theta and phi hold exactly rows ymin..ymax-1 and
\* columns xmin..xmax-1 of the top-left-origin rasters, bottom row first
\* (scene row 0 is original row ymax-1).
C22_CropKeepsWindow ==
    (SceneLoaded /\ WindowInside) =>
        /\ KeepsWindow(sc.displacement, TopLeftDisplacement)
        /\ KeepsWindow(sc.theta, TopLeftTheta)
        /\ KeepsWindow(sc.phi, TopLeftPhi)

\* the same when the LOS raster is of the shape of the interferogram
C22_CropKeepsWindowWhenLosMatches ==
    (SceneLoaded /\ WindowInside /\ LosMatches) =>
        /\ KeepsWindow(sc.displacement, TopLeftDisplacement)
        /\ KeepsWindow(sc.theta, TopLeftTheta)
        /\ KeepsWindow(sc.phi, TopLeftPhi)

\* a window that leaves out the first column and the northernmost row
C22_MatchingWitness ==
    /\ SceneLoaded /\ WindowInside /\ LosMatches
    /\ crop.xmin = 1 /\ crop.ymin = 1
    /\ \E k \in 1..Len(sc.displacement) : ~sc.displacement[k][1].nan

----------------------------------------------------------------------------
(* Reference point *)

\* the scene holds at least one pixel
SceneNotEmpty == Len(sc.theta) > 0 /\ Len(sc.theta[1]) > 0

\* the row (from the north, first row 1) and the column (from the west,
\* first column 1) of the georeferenced raster that the scene's first
\* pixel comes from: every pixel of the incidence band holds 30 + its row
\* and every pixel of the azimuth band -(100 + its column)
FirstPixelRow == 90 - 30 - (sc.theta[1][1] \div MicroRadPerDeg)
FirstPixelColumn == 90 - 100 - (sc.phi[1][1] \div MicroRadPerDeg)

\* edges of the raster's rows and columns, from its geotransform
NorthEdge == files.gt[3]
WestEdge == files.gt[0]
PixelHeight == sc.dN
PixelWidth == sc.dE
SouthEdgeOfRow(r) == NorthEdge - r * PixelHeight
WestEdgeOfColumn(c) == WestEdge + (c - 1) * PixelWidth

\* C23: the scene's reference point is the lower-left corner of the crop
\* window: llLat is the latitude of the south edge of the southernmost row
\* kept, llLon the longitude of the west edge of the westernmost column
\* kept, whatever the window.
C23_ReferenceIsLowerLeft ==
    (SceneLoaded /\ SceneNotEmpty) =>
        /\ sc.llLat = SouthEdgeOfRow(FirstPixelRow)
        /\ sc.llLon = WestEdgeOfColumn(FirstPixelColumn)

\* a window that leaves out the southernmost row and the first column
C23_Witness ==
    /\ SceneLoaded /\ SceneNotEmpty
    /\ crop.xmin = 1
    /\ crop.ymax = nrows - 1
    /\ sc.llLat > SouthEdgeOfRow(nrows)
    /\ sc.llLon > WestEdge

----------------------------------------------------------------------------
(* multiLook *)

\* multiLook returned
MultiLooked == gpc = "multiLook" /\ gerr = ""

\* the block of looks source pixels that starts at pixel k * looks
Block(k, looks) == { p \in 0..(MaxRaster + 1) : k * looks <= p /\ p < (k + 1) * looks }

\* along one axis: the output has floor(size/looks) pixels, the source window
\* starts at 0, is out * looks long and lies inside the input, output pixel k
\* is made of exactly the k-th block of looks pixels, and fewer than looks
\* trailing pixels are dropped
BoxCar(size, looks, outSize, off, winSize, footprint) ==
    /\ outSize * looks <= size /\ size < (outSize + 1) * looks
    /\ off = 0
    /\ winSize = outSize * looks
    /\ winSize <= size
    /\ Len(footprint) = outSize
    /\ \A k \in 1..outSize : footprint[k] = Block(k - 1, looks)
    /\ size - winSize >= 0 /\ size - winSize < looks

\* C24: for 1 <= xlooks <= xSize and 1 <= ylooks <= ySize multiLook is a
\* box-car reduction: the output is floor(xSize/xlooks) by
\* floor(ySize/ylooks), the source window starts at (0,0), has the size
\* (outXSize*xlooks, outYSize*ylooks) and never exceeds the input, each
\* output pixel is made of exactly one xlooks-by-ylooks block, and fewer
\* than xlooks trailing columns and ylooks trailing rows are dropped
C24_BoxCar ==
    (MultiLooked /\ args.xlooks >= 1 /\ args.ylooks >= 1) =>
        /\ BoxCar(raster.xSize, args.xlooks, out.width,
                  out.srcWin[1], out.srcWin[3], out.cols)
        /\ BoxCar(raster.ySize, args.ylooks, out.height,
                  out.srcWin[2], out.srcWin[4], out.rows)

\* a call that gives several blocks along x and drops a trailing row
C24_Witness ==
    /\ MultiLooked
    /\ args.xlooks = 2 /\ args.ylooks = 2
    /\ raster.ySize > out.srcWin[4]
    /\ out.width >= 2
    /\ out.cols[2] = {2, 3}

----------------------------------------------------------------------------
(* multiLookCpx *)

\* multiLookCpx returned normally
CpxReturned == gpc = "cpx_return" /\ gerr = ""

\* the open datasets that are made of, or refer to, the file
Referencing(f) == { d \in gds : f \in d.refs }

\* a step that removes a temporary file finds no open dataset referring to it
UnlinkedAfterRelease ==
    \A f \in TempFiles : (f \in vsimem /\ f \notin vsimem') => Referencing(f) = {}

\* C25: after multiLookCpx returns normally none of its three /vsimem files
\* exists, and every dataset that refers to one of them was released before
\* the file was unlinked
C25_TempFilesGone ==
    /\ [](CpxReturned => vsimem \cap TempFiles = {})
    /\ [][UnlinkedAfterRelease]_vars

\* a normal return after the multilooked VRT was made and copied
C25_Witness ==
    /\ CpxReturned
    /\ out.width >= 2 /\ out.height >= 1
    /\ args.xlooks = 2
    /\ gds = {}

----------------------------------------------------------------------------
(* The staged data of the setup cell *)

\* the step that runs the setup cell
SetupStep == apc = "start" /\ apc' = "setup"

\* the download commands the step ran
StepDownloads == SubSeq(dl_log', Len(dl_log) + 1, Len(dl_log'))

\* the step ran aws and wget and neither fetched the archive
BothFailed ==
    /\ Len(StepDownloads) = 2
    /\ \A k \in 1..2 : ~StepDownloads[k].ok

C26_ReplacedWitness ==
    /\ apc = "setup" /\ aerr = ""
    /\ Use_Staged_Data /\ zip_file
    /\ dl_log = <<>>
    /\ products = "staged"

----------------------------------------------------------------------------
(* The load cell run again *)

\* the load cell was run a second time and ended
Reloaded == pc = "reload" /\ err = ""

\* the scene a run from the top of the notebook gives with the window w
FreshScene(w) ==
    LET c == Flip0(files.cor)
        m == Flip0(files.msk)
    IN  MakeScene(Masked(Flip0(files.ifg), c, m, use_water_mask, cor_thresh),
                  Flip0(files.inc), Flip0(files.azi), files.gt,
                  Len(files.inc), w)

\* C27: the load cell run again with new crop bounds, the read cell not run
\* again, gives the scene a fresh run from the top gives with those bounds:
\* the flip and the conversion to metres are applied once however often the
\* cell is run
C27_RerunIsFreshRun == Reloaded => sc = FreshScene(crop)

\* the second run leaves everything but the displacement as a fresh run does
C27_RerunFreshButDisplacement ==
    Reloaded => [sc EXCEPT !.displacement = <<>>]
                    = [FreshScene(crop) EXCEPT !.displacement = <<>>]

\* the second run's displacement is the first run's array flipped back to
\* top-left order, masked and scaled once more
C27_RerunFlipsAndScalesAgain ==
    Reloaded =>
        sc.displacement =
            Slice2(Masked(Flip0(Masked(Flip0(files.ifg), Flip0(files.cor),
                                       Flip0(files.msk), use_water_mask,
                                       cor_thresh)),
                          Flip0(files.cor), Flip0(files.msk), use_water_mask,
                          cor_thresh),
                   nrows - crop.ymax, nrows - crop.ymin, crop.xmin, crop.xmax)

\* a second run that ended with a scene
C27_RerunWitness == Reloaded /\ sc.set /\ Len(sc.displacement) >= 1

----------------------------------------------------------------------------
(* The zero-level correction *)

\* the step that runs the zero-shift cell after the penalty cell
ZeroShiftStep == fpc = "penalty" /\ fpc' = "shift"

\* zero_shift.den times the sum over the points of
\* (observed - zero_shift) - model, for the shift the step leaves
CorrectedResidualSum ==
    zero_shift'.den * SumInt(Residual) - Len(data.a) * zero_shift'.num

\* C28: for observed and model displacements over the same non-empty point
\* set, the penalty the zero-shift cell computes is at most the penalty the
\* penalty cell computed, and the corrected residuals
\* (observed - zero_shift) - model sum to zero
C28_CorrectionNeverWorse ==
    [][ZeroShiftStep =>
        /\ Len(data.a) >= 1
        /\ penalty.den > 0 /\ penalty'.den > 0 /\ zero_shift'.den > 0
        /\ penalty'.num * penalty.den <= penalty.num * penalty'.den
        /\ CorrectedResidualSum = 0]_vars

\* the sum of the squared residuals, in ticks squared
SquaredResiduals == SumInt([i \in 1..Len(data.a) |-> Residual[i] * Residual[i]])

\* several points with a mean residual that is not zero, and a corrected
\* penalty that is above zero and below the uncorrected one
C28_Witness ==
    /\ ShiftComputed
    /\ Len(data.a) >= 2
    /\ zero_shift.num # 0
    /\ penalty.num > 0
    /\ penalty.num < SquaredResiduals * penalty.den

----------------------------------------------------------------------------
(* plot_layer *)

\* plot_layer was called
PlotLayerCalled == gpc = "plot_layer"

\* the number of bands the call is to plot: n_bands, or the band count of
\* the file when n_bands is not given
BandsAsked == IF args.n_bands = 0 THEN raster.count ELSE args.n_bands

\* the file has the bands the call is to plot
BandsInFile == BandsAsked <= raster.count

Unsupported == "Number of bands currently unsupported"

\* C30: for any layer type and 1 to 3 bands plot_layer completes with one
\* titled panel per band, and for 4 bands or more it raises 'Number of bands
\* currently unsupported'
C30_BandCounts ==
    (PlotLayerCalled /\ BandsInFile) =>
        /\ BandsAsked \in 1..3 => (gerr = "" /\ Len(panels) = BandsAsked)
        /\ BandsAsked >= 4 => gerr = Unsupported

\* what holds: one band, or layer type 'ENU', completes with a titled panel
\* per band; 2 or 3 bands of any other layer type stop with IndexError after
\* the first title; 4 bands or more raise the exception of the claim
C30_OneTitleUnlessENU ==
    (PlotLayerCalled /\ BandsInFile) =>
        /\ (BandsAsked = 1 \/ (args.lay_type = "ENU" /\ BandsAsked <= 3))
              => (gerr = "" /\ Len(panels) = BandsAsked)
        /\ (BandsAsked \in 2..3 /\ args.lay_type # "ENU")
              => (gerr = "IndexError" /\ Len(panels) = 1)
        /\ BandsAsked >= 4 => gerr = Unsupported

\* two bands of a layer type other than 'ENU'
C30_TwoBandWitness ==
    /\ PlotLayerCalled
    /\ args.lay_type = "deformation" /\ args.n_bands = 2 /\ raster.count = 2
    /\ gerr = "IndexError"

====
